---- MODULE Spec2Model ----
(***************************************************************************)
(* Model of polars-styler: the Styler builder (src/src/styler.rs), the     *)
(* Renderer (src/src/renderer.rs) and the colour arithmetic                *)
(* (src/src/colors.rs).                                                    *)
(*                                                                         *)
(* Conventions                                                             *)
(*   Option<T>      None == <<>>, Some(x) == <<x>>                         *)
(*   String         a sequence of one-character strings, except cell text  *)
(*                  and class/label names, which are atoms                 *)
(*   HashMap<K,V>   a function whose DOMAIN is the key set                 *)
(*   usize indices  0-based as in the source; sequences are 1-based, so    *)
(*                  an index i reads element i + 1                         *)
(*   f64            an exact fraction <<num, den>>, den > 0; <<0, 0>> is   *)
(*                  NaN, <<1, 0>> and <<-1, 0>> the infinities             *)
(***************************************************************************)
EXTENDS Integers, Sequences, FiniteSets, TLC

VARIABLES
    df,              \* Styler.df: [names, cols], cols column-major
    precision,       \* Styler.params.precision: Option<u32>
    table_classes,   \* Styler.params.table_classes: Option<Vec<String>>
    applied_styles,  \* Styler.applied_styles[col][row]: attribute -> value
    labels,          \* Styler.labels: column name -> label
    status,          \* "ok", or the panic that ended the chain
    rend,            \* Option<Renderer>: the struct render() built last
    out,             \* Option<output>: what render() returned last
    last,            \* the operation that produced this state and its arguments
    nops,            \* number of operations called so far in the chain
    fcalls,          \* number of times a style closure has been invoked
    supplied,        \* history: class lists accepted so far, concatenated
    assigned,        \* history: name -> label most recently assigned
    written,         \* history: <<col, row, attr>> -> value most recently written
    cm,              \* ColorMap.v: sequence of [value, color]
    qv,              \* Option<f64>: argument of the last ColorMap::get
    res,             \* Option<Result<Color>>: result of the last ColorMap::get
    grad,            \* Option<Gradient>: [start, end] of the last gradient built
    ga,              \* Option<f64>: argument of the last Gradient::interpolate
    gres,            \* Option<Result<Color>>: result of the last Gradient::interpolate
    input,           \* the string handed to Color::try_from
    parsed           \* Option<Result<Color>>: result of Color::try_from(input)

stylerVars == <<df, precision, table_classes, applied_styles, labels, status,
                rend, out, last, nops, fcalls, supplied, assigned, written>>
colorVars == <<cm, qv, res, grad, ga, gres>>
parseVars == <<input, parsed>>
vars == <<df, precision, table_classes, applied_styles, labels, status,
          rend, out, last, nops, fcalls, supplied, assigned, written,
          cm, qv, res, grad, ga, gres, input, parsed>>

\* ------------------------------------------------------------------------
\* Bounds
\* ------------------------------------------------------------------------

\* Longest chain of Styler operations explored.
MaxOps == 3

\* ------------------------------------------------------------------------
\* Generic helpers
\* ------------------------------------------------------------------------

None == <<>>

Some(x) == <<x>>

is_some(o) == Len(o) = 1

unwrap(o) == o[1]

EmptyMap == [k \in {} |-> <<>>]

Min2(a, b) == IF a < b THEN a ELSE b

Range(s) == {s[i] : i \in DOMAIN s}

DigitChars == <<"0", "1", "2", "3", "4", "5", "6", "7", "8", "9">>

\* Display of an unsigned integer ("{}"): its decimal digits.
RECURSIVE Dec(_)
Dec(n) == IF n < 10 THEN <<DigitChars[n + 1]>>
          ELSE Dec(n \div 10) \o <<DigitChars[(n % 10) + 1]>>

RECURSIVE Pow10(_)
Pow10(n) == IF n = 0 THEN 1 ELSE 10 * Pow10(n - 1)

RECURSIVE Gcd(_, _)
Gcd(a, b) == IF b = 0 THEN a ELSE Gcd(b, a % b)

Abs(x) == IF x < 0 THEN -x ELSE x

\* An f64 as a fraction in lowest terms with a positive denominator.
Frac(n, d) == IF d = 0 THEN <<(IF n > 0 THEN 1 ELSE IF n < 0 THEN -1 ELSE 0), 0>>
              ELSE LET g == Gcd(Abs(n), Abs(d))
                       s == IF d < 0 THEN -1 ELSE 1
                   IN  <<(s * n) \div g, (s * d) \div g>>

NaN == <<0, 0>>

\* Neither NaN nor an infinity (<<1, 0>>, <<-1, 0>>).
IsFinite(x) == x[2] # 0

\* ------------------------------------------------------------------------
\* f64 arithmetic on exact fractions.  Comparisons with NaN are false;
\* infinities arise only from FDiv and are only tested against a range.
\* ------------------------------------------------------------------------

FLt(x, y) == IsFinite(x) /\ IsFinite(y) /\ x[1] * y[2] < y[1] * x[2]

FEq(x, y) == IsFinite(x) /\ IsFinite(y) /\ x[1] * y[2] = y[1] * x[2]

FSub(x, y) == IF ~IsFinite(x) \/ ~IsFinite(y) THEN NaN
              ELSE Frac(x[1] * y[2] - y[1] * x[2], x[2] * y[2])

\* x / y: 0.0 / 0.0 is NaN, any other x / 0.0 an infinity
FDiv(x, y) == IF ~IsFinite(x) \/ ~IsFinite(y) THEN NaN
              ELSE Frac(x[1] * y[2], x[2] * y[1])

FMinOf(S) == CHOOSE x \in S : \A y \in S : ~FLt(y, x)

FMaxOf(S) == CHOOSE x \in S : \A y \in S : ~FLt(x, y)

\* ------------------------------------------------------------------------
\* The tables a Styler is built from (the DataFrame collaborator)
\*   a cell is <<"i", n>> (integer), <<"f", m>> (float m / 1000) or
\*   <<"s", text>> (Utf8)
\* ------------------------------------------------------------------------

TestTable ==
    [names |-> <<"a", "b">>,
     cols  |-> << << <<"i", 1>>, <<"i", 222>>, <<"i", 3>> >>,
                  << <<"s", "fooo">>, <<"s", "b">>, <<"s", "c">> >> >>]

PriceTable ==
    [names |-> <<"p", "k">>,
     cols  |-> << << <<"f", 1123>>, <<"f", 2500>>, <<"f", 3450>> >>,
                  << <<"i", 5>>, <<"i", 5>>, <<"i", 5>> >> >>]

NoRowsTable == [names |-> <<"a">>, cols |-> << <<>> >>]

NoColsTable == [names |-> <<>>, cols |-> <<>>]

Tables == {TestTable, PriceTable, NoRowsTable, NoColsTable}

width(d) == Len(d.cols)

height(d) == IF Len(d.cols) = 0 THEN 0 ELSE Len(d.cols[1])

\* Column names a caller may pass: those of the table and one that is absent.
ColumnArgs(d) == Range(d.names) \cup {"zz"}

\* ------------------------------------------------------------------------
\* Styler: construction and lookup
\* ------------------------------------------------------------------------

new_styles_grid(d) == [c \in 1..width(d) |-> [r \in 1..height(d) |-> EmptyMap]]

\* Iterator::position: index of the first element satisfying the predicate.
RECURSIVE position_from(_, _, _)
position_from(names, column, i) ==
    IF i >= Len(names) THEN None
    ELSE IF names[i + 1] = column THEN Some(i)
    ELSE position_from(names, column, i + 1)

\* lookup that starts the scan one column late
get_col_idx_skip_first(d, column) == position_from(d.names, column, 1)

get_col_idx(d, column) == position_from(d.names, column, 0)

icolumn(d, column) ==
    LET col == get_col_idx(d, column)
    IN  IF col = None THEN None
        ELSE Some(<<unwrap(col), d.cols[unwrap(col) + 1]>>)

\* extend that keeps the existing value of a key present on both sides
extend_keep_existing(a, b) ==
    [k \in (DOMAIN a) \cup (DOMAIN b) |-> IF k \in DOMAIN a THEN a[k] ELSE b[k]]

\* HashMap::extend: insert every pair of b into a, replacing equal keys.
extend(a, b) ==
    [k \in (DOMAIN a) \cup (DOMAIN b) |-> IF k \in DOMAIN b THEN b[k] ELSE a[k]]

\* Iterator::zip: pairs up to the end of the shorter side.
zip(xs, ys) == [i \in 1..Min2(Len(xs), Len(ys)) |-> <<xs[i], ys[i]>>]

\* the merge loop collected into a new column: one map per zipped pair
zip_extend_collected(column_styles, new_styles) ==
    LET z == zip(column_styles, new_styles)
    IN  [r \in DOMAIN z |-> extend(z[r][1], z[r][2])]

\* iter_mut().zip(new_styles).for_each(|(a, b)| a.extend(b))
zip_extend(column_styles, new_styles) ==
    LET z == zip(column_styles, new_styles)
    IN  [r \in 1..Len(column_styles) |->
            IF r \in DOMAIN z THEN extend(z[r][1], z[r][2]) ELSE column_styles[r]]

\* ------------------------------------------------------------------------
\* Colour formatting used by the Styler
\* ------------------------------------------------------------------------

Color(r, g, b) == [r |-> r, g |-> g, b |-> b]

\* "{}, {}, {}"
to_csv(c) == <<Dec(c.r), Dec(c.g), Dec(c.b)>>

\* "rgba({}, {})": the three channels and the opacity as the f64 printed
to_rgba(c, a) == <<"rgba">> \o to_csv(c) \o <<a>>

\* ------------------------------------------------------------------------
\* normalize_series (min and range are exact here; the source narrows
\* them to f32)
\* ------------------------------------------------------------------------

\* Series::cast(Float64) of one cell; text that is not a number becomes null.
cast_f64(cell) ==
    IF cell[1] = "i" THEN Some(<<cell[2], 1>>)
    ELSE IF cell[1] = "f" THEN Some(Frac(cell[2], 1000))
    ELSE None

clip_min(x, vmin) == IF x # None /\ FLt(unwrap(x), vmin) THEN Some(vmin) ELSE x

clip_max(x, vmax) == IF x # None /\ FLt(vmax, unwrap(x)) THEN Some(vmax) ELSE x

\* s.cast(Float64), then clip_min / clip_max when given: element i
clipped(series, vmin, vmax, i) ==
    LET x0 == cast_f64(series[i])
        x1 == IF vmin # None THEN clip_min(x0, unwrap(vmin)) ELSE x0
    IN  IF vmax # None THEN clip_max(x1, unwrap(vmax)) ELSE x1

\* The non-null values min() and max() range over.
present(series, vmin, vmax) ==
    {unwrap(clipped(series, vmin, vmax, i)) :
        i \in {j \in DOMAIN series : clipped(series, vmin, vmax, j) # None}}

\* s = s - min; s = s / range, for the values xs with minimum min
scale(xs, min, range) == [i \in DOMAIN xs |-> FDiv(FSub(xs[i], min), range)]

\* [ok |-> FALSE] when min() finds no value and unwrap() panics,
\* else [ok |-> TRUE, s |-> the normalised column].
normalize_series(series, vmin, vmax) ==
    \* a column with a null in it is all null here: columns are typed
    IF present(series, vmin, vmax) = {} THEN [ok |-> FALSE, s |-> <<>>]
    ELSE LET xs == [i \in DOMAIN series |-> unwrap(clipped(series, vmin, vmax, i))]
             min == FMinOf(Range(xs))
             range == FMaxOf({FSub(x, min) : x \in Range(xs)})
         IN  [ok |-> TRUE, s |-> scale(xs, min, range)]

\* .map(|v| HashMap::from([("background-color", color.to_rgba(v))]))
rgba_styles(s, color) ==
    [i \in DOMAIN s |-> ("background-color" :> to_rgba(color, s[i]))]

\* The closure background_gradient hands to apply.
gradient_closure(series, color, vmin, vmax) ==
    LET n == normalize_series(series, vmin, vmax)
    IN  [ok |-> n.ok, styles |-> rgba_styles(n.s, color)]

\* ------------------------------------------------------------------------
\* Style closures a caller passes to apply
\* ------------------------------------------------------------------------

StyleFns == {"test_apply", "blue_bold", "first_only", "one_more"}

StyleFn(f, series) ==
    CASE f = "test_apply" ->
            [i \in DOMAIN series |->
                IF series[i][1] = "i" /\ series[i][2] = 222
                THEN ("background-color" :> <<"red">>) ELSE EmptyMap]
      [] f = "blue_bold" ->
            [i \in DOMAIN series |->
                ("color" :> <<"blue">>) @@ ("font-weight" :> <<"bold">>)]
      [] f = "first_only" -> << ("color" :> <<"green">>) >>
      [] f = "one_more" ->
            [i \in 1..(Len(series) + 1) |-> ("background-color" :> <<"yellow">>)]

user_closure(f, series) == [ok |-> TRUE, styles |-> StyleFn(f, series)]

Clamps == {None, Some(<<2, 1>>)}

GradientColors == {Color(255, 0, 0)}

\* ------------------------------------------------------------------------
\* format_value
\* ------------------------------------------------------------------------

RECURSIVE PadDec(_, _)
PadDec(n, w) == IF w = 0 THEN <<>>
                ELSE PadDec(n \div 10, w - 1) \o <<DigitChars[(n % 10) + 1]>>

RoundHalfEven(n, d) ==
    LET q == n \div d
        r == n % d
    IN  IF 2 * r < d THEN q
        ELSE IF 2 * r > d THEN q + 1
        ELSE IF q % 2 = 0 THEN q ELSE q + 1

\* format!("{:.1$}", f, p) of the float m / 1000
format_fixed(m, p) ==
    LET scaled == IF p >= 3 THEN m * Pow10(p - 3) ELSE RoundHalfEven(m, Pow10(3 - p))
    IN  Dec(scaled \div Pow10(p)) \o
        (IF p = 0 THEN <<>> ELSE <<".">> \o PadDec(scaled % Pow10(p), p))

\* f.to_string(): the shortest decimal that reads back as m / 1000
float_to_string(m) ==
    LET p == CHOOSE q \in 0..3 :
                 /\ m % Pow10(3 - q) = 0
                 /\ \A q2 \in 0..3 : m % Pow10(3 - q2) = 0 => q <= q2
    IN  format_fixed(m, p)

format_value(v, prec) ==
    IF v[1] = "f"
    THEN IF prec = None THEN float_to_string(v[2]) ELSE format_fixed(v[2], unwrap(prec))
    ELSE IF v[1] = "s" THEN <<v[2]>>
    ELSE Dec(v[2])

format_row(series, prec) == [i \in DOMAIN series |-> format_value(series[i], prec)]

\* ------------------------------------------------------------------------
\* Renderer
\* ------------------------------------------------------------------------

HexChars == <<"0", "1", "2", "3", "4", "5", "6", "7", "8", "9",
              "a", "b", "c", "d", "e", "f">>

\* "{:x}"
RECURSIVE Hex(_)
Hex(n) == IF n < 16 THEN <<HexChars[n + 1]>>
          ELSE Hex(n \div 16) \o <<HexChars[(n % 16) + 1]>>

\* Values rng.gen_range(0..16^6) may draw.
HashDraws == {0, 11259375}

random_hash(n) == Hex(n)

\* cell_id with row and column exchanged
cell_id_transposed(hash, row, col) ==
    <<"T", "_">> \o hash \o <<"_", "r", "o", "w">> \o Dec(col)
                 \o <<"_", "c", "o", "l">> \o Dec(row)

\* fn cell_id: "T_{}_row{}_col{}"
cell_id(hash, row, col) ==
    <<"T", "_">> \o hash \o <<"_", "r", "o", "w">> \o Dec(row)
                 \o <<"_", "c", "o", "l">> \o Dec(col)

\* "{}: {}" per attribute, joined by "; " in the map's iteration order
css_styles(styles) == {<<attr, styles[attr]>> : attr \in DOMAIN styles}

\* Renderer::styles: one "#id {body}" rule per entry of cell_styles
styles(R) ==
    {[sel |-> <<"#">> \o cell_id(R.hash, key[1], key[2]),
      body |-> css_styles(R.cell_styles[key])] : key \in DOMAIN R.cell_styles}

\* Renderer::cell
cell(R, row, col) ==
    [id |-> <<"T", "_">> \o R.hash \o <<"_", "r", "o", "w">> \o Dec(row)
                         \o <<"_", "c", "o", "l">> \o Dec(col),
     inner |-> R.cell_values[col + 1][row + 1]]

\* Renderer::row with the columns taken from the last to the first
row_reversed(R, i) ==
    [j \in 1..Len(R.cell_values) |-> cell(R, i, Len(R.cell_values) - j)]

\* Renderer::row
row(R, i) == [j \in 1..Len(R.cell_values) |-> cell(R, i, j - 1)]

\* Renderer::table, past the zero-column panic.  renderer.rs names the header
\* field column_names and sets the class "dataframe" alone; Styler::render
\* fills it as column_labels and also passes classes.
table(R) ==
    LET nrow == Len(R.cell_values[1])
    IN  [body |-> [i \in 1..nrow |-> row(R, i - 1)],
         header |-> R.column_labels,
         class |-> <<"dataframe">>]

\* The <td> elements of table().to_html_string() in document order: the body
\* rows in the order with_custom_body_row added them, each row's cells in the
\* order Renderer::row produced them.
RECURSIVE body_cells(_, _)
body_cells(body, i) ==
    IF i > Len(body) THEN <<>> ELSE body[i] \o body_cells(body, i + 1)

\* Renderer::render with nrow set to 0 for a table without columns, as the
\* comment in Renderer::table suggests, instead of the panic
renderer_render_nrow_zero(R) ==
    IF Len(R.cell_values) = 0
    THEN Some([style |-> styles(R),
               table |-> [body |-> <<>>, header |-> R.column_labels,
                          class |-> <<"dataframe">>]])
    ELSE Some([style |-> styles(R), table |-> table(R)])

\* Renderer::render: None when table() panics
renderer_render(R) ==
    IF Len(R.cell_values) = 0 THEN None
    ELSE Some([style |-> styles(R), table |-> table(R)])

\* ------------------------------------------------------------------------
\* Styler::render: the Renderer struct it builds
\* ------------------------------------------------------------------------

column_names(d) == d.names

\* for (c, vec) in applied_styles.enumerate() { for (r, map) in vec.enumerate()
\*   { if map.is_empty() { continue; } cell_styles.insert((r, c), map) } }
cell_styles_of(st) ==
    LET keys == UNION {{<<r - 1, c - 1>> : r \in {q \in DOMAIN st[c] : DOMAIN st[c][q] # {}}} :
                       c \in DOMAIN st}
    IN  [rc \in keys |-> st[rc[2] + 1][rc[1] + 1]]

\* header that ignores the stored labels
column_labels_raw(d, labs) == column_names(d)

\* column_names().iter().map(|col| labels.get(col).unwrap_or(col))
column_labels_of(d, labs) ==
    [i \in 1..Len(column_names(d)) |->
        LET col == column_names(d)[i]
        IN  IF col \in DOMAIN labs THEN labs[col] ELSE col]

unwrap_or_default(o) == IF o = None THEN <<>> ELSE unwrap(o)

make_renderer(d, prec, classes, st, labs, n) ==
    [column_labels |-> column_labels_of(d, labs),
     cell_values |-> [c \in 1..width(d) |-> format_row(d.cols[c], prec)],
     cell_styles |-> cell_styles_of(st),
     hash |-> random_hash(n),
     classes |-> unwrap_or_default(classes)]

\* ------------------------------------------------------------------------
\* Styler operations as functions of the fields they touch
\* ------------------------------------------------------------------------

\* HashMap::insert
insert(m, k, v) == [x \in (DOMAIN m) \cup {k} |-> IF x = k THEN v ELSE m[x]]

\* set_table_classes without the single-use check
set_table_classes_overwrite(tc, classes) == [panic |-> FALSE, tc |-> Some(classes)]

set_table_classes(tc, classes) ==
    IF is_some(tc) THEN [panic |-> TRUE, tc |-> tc]
    ELSE [panic |-> FALSE, tc |-> Some(classes)]

\* add_table_classes that puts the new classes in front
add_table_classes_prepend(tc, classes) ==
    IF ~is_some(tc) THEN set_table_classes(tc, classes)
    ELSE [panic |-> FALSE, tc |-> Some(classes \o unwrap(tc))]

add_table_classes(tc, classes) ==
    IF ~is_some(tc) THEN set_table_classes(tc, classes)
    ELSE [panic |-> FALSE, tc |-> Some(unwrap(tc) \o classes)]

set_precision(p, n) ==
    IF is_some(p) THEN [panic |-> TRUE, p |-> p]
    ELSE [panic |-> FALSE, p |-> Some(n)]

RECURSIVE insert_pairs(_, _, _)
insert_pairs(m, z, i) ==
    IF i > Len(z) THEN m
    ELSE insert_pairs(insert(m, z[i][1], z[i][2]), z, i + 1)

\* get_column_names().iter().zip(labels).for_each(|(col, lab)| labels.insert(col, lab))
set_labels(labs, names, list) == insert_pairs(labs, zip(names, list), 1)

relabel_column(labs, column, label) == insert(labs, column, label)

\* mapping.iter().for_each(|(k, v)| labels.insert(k, v)); keys are distinct,
\* so the iteration order does not show
relabel(labs, mapping) == extend(labs, mapping)

\* ------------------------------------------------------------------------
\* Arguments callers pass
\* ------------------------------------------------------------------------

ClassLists == {<<>>, <<"table">>, <<"table-hover", "table">>}

Precisions == {0, 2}

LabelLists == {<<>>, <<"L1">>, <<"L2", "L1", "L3">>}

LabelArgs == {"L1", "L2"}

RelabelMaps == {("a" :> "L3") @@ ("zz" :> "L1"), ("p" :> "L1") @@ ("k" :> "L2")}

\* ------------------------------------------------------------------------
\* Actions of the Styler chain
\* ------------------------------------------------------------------------

\* Expressions handed to background_gradient_expr, each over one column:
\* col(c), col(c).head(Some(1)), col(c).append(col(c), false) and
\* col(c).alias("zz").
Expr(kind, column) == [kind |-> kind, column |-> column]

ExprKinds == {"head", "append", "alias"}

\* col(c) for every name tried, the other kinds over the first column.
Exprs(d) ==
    {Expr("col", c) : c \in ColumnArgs(d)}
        \cup (IF width(d) = 0 THEN {} ELSE {Expr(k, d.names[1]) : k \in ExprKinds})

\* evaluate_expr: the first column of select([e]); None when collect() fails
\* on an unknown column and unwrap() panics
evaluate_expr(e, d) ==
    LET c == get_col_idx(d, e.column)
    IN  IF c = None THEN None
        ELSE LET s == d.cols[unwrap(c) + 1]
             IN  Some([name |-> IF e.kind = "alias" THEN "zz" ELSE e.column,
                       values |-> CASE e.kind = "head" -> SubSeq(s, 1, Min2(1, Len(s)))
                                    [] e.kind = "append" -> s \o s
                                    [] OTHER -> s])

\* .enumerate().for_each(|(i, v)| applied_styles[c][i].insert("background-color", v))
\* for the rows the column has
insert_background(column_styles, vs) ==
    [r \in DOMAIN column_styles |->
        IF r <= Len(vs) THEN insert(column_styles[r], "background-color", vs[r])
        ELSE column_styles[r]]

\* background_gradient_series on a column the lookup found and a series that
\* normalised to n: indexing a row the column does not have panics
background_gradient_rows(st, c, n, color) ==
    IF ~n.ok THEN [status |-> "Unwrap", styles |-> st]
    ELSE IF Len(n.s) > Len(st[c + 1]) THEN [status |-> "IndexOutOfBounds", styles |-> st]
    ELSE [status |-> "ok",
          styles |-> [st EXCEPT ![c + 1] =
                         insert_background(@, [i \in DOMAIN n.s |-> to_rgba(color, n.s[i])])]]

\* background_gradient_series: get_col_idx(s.name()).unwrap() first
background_gradient_series(st, d, s, color) ==
    LET c == get_col_idx(d, s.name)
    IN  IF c = None THEN [status |-> "Unwrap", styles |-> st]
        ELSE background_gradient_rows(st, unwrap(c), normalize_series(s.values, None, None),
                                      color)

\* background_gradient_expr
background_gradient_expr(st, d, e, color) ==
    LET s == evaluate_expr(e, d)
    IN  IF s = None THEN [status |-> "Unwrap", styles |-> st]
        ELSE background_gradient_series(st, d, unwrap(s), color)

CanCall == status = "ok" /\ nops < MaxOps

Called(op) == nops' = nops + 1 /\ last' = op

Init ==
    /\ df \in Tables
    /\ precision = None
    /\ table_classes = None
    /\ applied_styles = new_styles_grid(df)
    /\ labels = EmptyMap
    /\ status = "ok"
    /\ rend = None
    /\ out = None
    /\ last = <<"new">>
    /\ nops = 0
    /\ fcalls = 0
    /\ supplied = <<>>
    /\ assigned = EmptyMap
    /\ written = EmptyMap
    /\ cm = <<>>
    /\ qv = None
    /\ res = None
    /\ grad = None
    /\ ga = None
    /\ gres = None
    /\ input = <<>>
    /\ parsed = None

\* f(series) for a closure f given by its kind and captured values
call_closure(f, series) ==
    IF f.kind = "user" THEN user_closure(f.f, series)
    ELSE gradient_closure(series, f.color, f.vmin, f.vmax)

\* apply(column, f)
ApplyWith(column, f, op) ==
    /\ CanCall
    /\ Called(op)
    /\ LET ic == icolumn(df, column)
       IN  IF ic = None
           THEN /\ status' = "NotFound"
                /\ UNCHANGED <<applied_styles, fcalls, written>>
           ELSE \E new \in {call_closure(f, unwrap(ic)[2])} :
                LET col == unwrap(ic)[1]
                IN  /\ fcalls' = fcalls + 1
                    /\ IF ~new.ok
                       THEN /\ status' = "Unwrap"
                            /\ UNCHANGED <<applied_styles, written>>
                       ELSE LET rows == (1..Len(new.styles)) \cap (1..Len(applied_styles[col + 1]))
                                K == UNION {{<<col, r - 1, k>> : k \in DOMAIN new.styles[r]} :
                                            r \in rows}
                            IN  /\ status' = "ok"
                                /\ applied_styles' =
                                       [applied_styles EXCEPT ![col + 1] = zip_extend(@, new.styles)]
                                /\ written' =
                                       [key \in (DOMAIN written) \cup K |->
                                           IF key \in K THEN new.styles[key[2] + 1][key[3]]
                                           ELSE written[key]]
    /\ UNCHANGED <<df, precision, table_classes, labels, rend, out, supplied, assigned>>
    /\ UNCHANGED <<colorVars, parseVars>>

Apply ==
    \E column \in ColumnArgs(df), f \in StyleFns :
        ApplyWith(column, [kind |-> "user", f |-> f], <<"apply", column, f>>)

BackgroundGradient ==
    \E column \in ColumnArgs(df), color \in GradientColors, vmin \in Clamps, vmax \in Clamps :
        ApplyWith(column,
                  [kind |-> "gradient", color |-> color, vmin |-> vmin, vmax |-> vmax],
                  <<"background_gradient", column, vmin, vmax>>)

SetTableClasses ==
    \E classes \in ClassLists :
        LET r == set_table_classes(table_classes, classes)
        IN  /\ CanCall
            /\ Called(<<"set_table_classes", classes>>)
            /\ status' = IF r.panic THEN "Misconfiguration" ELSE "ok"
            /\ table_classes' = r.tc
            /\ supplied' = IF r.panic THEN supplied ELSE supplied \o classes
            /\ UNCHANGED <<df, precision, applied_styles, labels, rend, out, fcalls,
                           assigned, written>>
            /\ UNCHANGED <<colorVars, parseVars>>

AddTableClasses ==
    \E classes \in ClassLists :
        LET r == add_table_classes(table_classes, classes)
        IN  /\ CanCall
            /\ Called(<<"add_table_classes", classes>>)
            /\ status' = IF r.panic THEN "Misconfiguration" ELSE "ok"
            /\ table_classes' = r.tc
            /\ supplied' = IF r.panic THEN supplied ELSE supplied \o classes
            /\ UNCHANGED <<df, precision, applied_styles, labels, rend, out, fcalls,
                           assigned, written>>
            /\ UNCHANGED <<colorVars, parseVars>>

SetPrecision ==
    \E n \in Precisions :
        LET r == set_precision(precision, n)
        IN  /\ CanCall
            /\ Called(<<"set_precision", n>>)
            /\ status' = IF r.panic THEN "Misconfiguration" ELSE "ok"
            /\ precision' = r.p
            /\ UNCHANGED <<df, table_classes, applied_styles, labels, rend, out, fcalls,
                           supplied, assigned, written>>
            /\ UNCHANGED <<colorVars, parseVars>>

SetLabels ==
    \E list \in LabelLists :
        LET n == Min2(Len(df.names), Len(list))
            named == {df.names[i] : i \in 1..n}
        IN  /\ CanCall
            /\ Called(<<"set_labels", list>>)
            /\ status' = "ok"
            /\ labels' = set_labels(labels, df.names, list)
            /\ assigned' = [x \in (DOMAIN assigned) \cup named |->
                               IF x \in named
                               THEN list[CHOOSE i \in 1..n : df.names[i] = x]
                               ELSE assigned[x]]
            /\ UNCHANGED <<df, precision, table_classes, applied_styles, rend, out, fcalls,
                           supplied, written>>
            /\ UNCHANGED <<colorVars, parseVars>>

RelabelColumn ==
    \E column \in ColumnArgs(df), label \in LabelArgs :
        /\ CanCall
        /\ Called(<<"relabel_column", column, label>>)
        /\ status' = "ok"
        /\ labels' = relabel_column(labels, column, label)
        /\ assigned' = [x \in (DOMAIN assigned) \cup {column} |->
                           IF x = column THEN label ELSE assigned[x]]
        /\ UNCHANGED <<df, precision, table_classes, applied_styles, rend, out, fcalls,
                       supplied, written>>
        /\ UNCHANGED <<colorVars, parseVars>>

Relabel ==
    \E mapping \in RelabelMaps :
        /\ CanCall
        /\ Called(<<"relabel", mapping>>)
        /\ status' = "ok"
        /\ labels' = relabel(labels, mapping)
        /\ assigned' = [x \in (DOMAIN assigned) \cup (DOMAIN mapping) |->
                           IF x \in DOMAIN mapping THEN mapping[x] ELSE assigned[x]]
        /\ UNCHANGED <<df, precision, table_classes, applied_styles, rend, out, fcalls,
                       supplied, written>>
        /\ UNCHANGED <<colorVars, parseVars>>

BackgroundGradientExpr ==
    \E e \in Exprs(df), color \in GradientColors :
        /\ CanCall
        /\ Called(<<"background_gradient_expr", e>>)
        /\ \E r \in {background_gradient_expr(applied_styles, df, e, color)} :
               LET K == {<<x[1] - 1, x[2] - 1, "background-color">> :
                            x \in {y \in (1..width(df)) \X (1..height(df)) :
                                      r.styles[y[1]][y[2]] # applied_styles[y[1]][y[2]]}}
               IN  /\ status' = r.status
                   /\ applied_styles' = r.styles
                   /\ written' = [key \in (DOMAIN written) \cup K |->
                                     IF key \in K THEN r.styles[key[1] + 1][key[2] + 1][key[3]]
                                     ELSE written[key]]
        /\ UNCHANGED <<df, precision, table_classes, labels, rend, out, fcalls,
                       supplied, assigned>>
        /\ UNCHANGED <<colorVars, parseVars>>

\* render() on a clone of the state (PyStyler::render), so the chain may go on
Render ==
    \E n \in HashDraws :
        LET R == make_renderer(df, precision, table_classes, applied_styles, labels, n)
            o == renderer_render(R)
        IN  /\ CanCall
            /\ Called(<<"render", n>>)
            /\ rend' = Some(R)
            /\ out' = o
            /\ status' = IF o = None THEN "StructuralError" ELSE "ok"
            /\ UNCHANGED <<df, precision, table_classes, applied_styles, labels, fcalls,
                           supplied, assigned, written>>
            /\ UNCHANGED <<colorVars, parseVars>>

Next ==
    \/ Apply
    \/ BackgroundGradient
    \/ BackgroundGradientExpr
    \/ SetTableClasses
    \/ AddTableClasses
    \/ SetPrecision
    \/ SetLabels
    \/ RelabelColumn
    \/ Relabel
    \/ Render

Spec == Init /\ [][Next]_vars

\* ------------------------------------------------------------------------
\* Gradient and ColorMap (colors.rs)
\* ------------------------------------------------------------------------

Ok(x) == <<"Ok", x>>

Err == <<"Err">>

is_ok(r) == r[1] = "Ok"

\* (x as f64 * (1.0 - a) + y as f64 * a).round() as u8, for a = n / d in
\* [0, 1]; round() takes halves away from zero
interpolate(x, y, a) ==
    LET num == x * (a[2] - a[1]) + y * a[1]
    IN  (2 * num + a[2]) \div (2 * a[2])

\* (0.0..1.0).contains(&a): the range without its upper end
in_unit_range_exclusive(a) == IsFinite(a) /\ 0 <= a[1] /\ a[1] < a[2]

\* (0.0..=1.0).contains(&a)
in_unit_range(a) == IsFinite(a) /\ 0 <= a[1] /\ a[1] <= a[2]

\* Gradient::interpolate of the gradient from start to end
Gradient_interpolate(start, end, a) ==
    IF ~in_unit_range(a) THEN Err
    ELSE Ok(Color(interpolate(start.r, end.r, a),
                  interpolate(start.g, end.g, a),
                  interpolate(start.b, end.b, a)))

ColorBreakPoint(value, color) == [value |-> value, color |-> color]

\* ColorMap::from_palette: colour i of n at i / (n - 1); for n = 1 that is
\* 0.0 / 0.0
from_palette(colors) ==
    [k \in 1..Len(colors) |-> ColorBreakPoint(Frac(k - 1, Len(colors) - 1), colors[k])]

red_scale == from_palette(<<Color(255, 255, 255), Color(255, 0, 0)>>)

\* The loop of ColorMap::get over self.v.iter().tuples(): itertools' tuples()
\* yields the disjoint pairs (v[0], v[1]), (v[2], v[3]), ... and drops an odd
\* last element; i is the index of the pair's left element.
RECURSIVE scan_tuples(_, _, _)
scan_tuples(v, value, i) ==
    IF i + 1 >= Len(v) THEN Ok(v[Len(v)].color)
    ELSE LET left == v[i + 1]
             right == v[i + 2]
         IN  IF FEq(value, left.value) THEN Ok(left.color)
             ELSE IF FLt(value, right.value)
             THEN Gradient_interpolate(left.color, right.color,
                      FDiv(FSub(value, left.value), FSub(right.value, left.value)))
             ELSE scan_tuples(v, value, i + 2)

\* ColorMap::get without the clamp below the first breakpoint
get_no_low_clamp(v, value) == scan_tuples(v, value, 0)

\* ColorMap::get
get(v, value) ==
    IF FLt(value, v[1].value) THEN Ok(v[1].color)
    ELSE scan_tuples(v, value, 0)

\* Most colours in a palette.
MaxStops == 4

\* Queried values are the multiples of 1 / QueryDen from -2 / QueryDen to
\* 1 + 2 / QueryDen.
QueryDen == 12

PaletteColors == {Color(255, 255, 255), Color(255, 0, 0), Color(10, 100, 7)}

RECURSIVE SeqsUpTo(_, _)
SeqsUpTo(S, n) ==
    IF n = 0 THEN {<<>>}
    ELSE LET shorter == SeqsUpTo(S, n - 1)
         IN  shorter \cup {Append(q, x) : q \in {t \in shorter : Len(t) = n - 1}, x \in S}

Palettes == SeqsUpTo(PaletteColors, MaxStops) \ {<<>>}

Queries == {Frac(k, QueryDen) : k \in (-2)..(QueryDen + 2)}

InitColor ==
    /\ df = NoColsTable
    /\ precision = None
    /\ table_classes = None
    /\ applied_styles = new_styles_grid(df)
    /\ labels = EmptyMap
    /\ status = "ok"
    /\ rend = None
    /\ out = None
    /\ last = <<"new">>
    /\ nops = 0
    /\ fcalls = 0
    /\ supplied = <<>>
    /\ assigned = EmptyMap
    /\ written = EmptyMap
    /\ cm = red_scale
    /\ qv = None
    /\ res = None
    /\ grad = None
    /\ ga = None
    /\ gres = None
    /\ input = <<>>
    /\ parsed = None

FromPalette ==
    \E colors \in Palettes :
        /\ cm' = from_palette(colors)
        /\ qv' = None
        /\ res' = None
        /\ UNCHANGED <<grad, ga, gres, stylerVars, parseVars>>

Get ==
    \E value \in Queries :
        /\ qv' = Some(value)
        /\ res' = Some(get(cm, value))
        /\ UNCHANGED <<cm, grad, ga, gres, stylerVars, parseVars>>

NextColor ==
    \/ FromPalette
    \/ Get

SpecColor == InitColor /\ [][NextColor]_vars

\* struct Gradient
Gradient(start, end) == [start |-> start, end |-> end]

\* Colours a gradient is built from: the palette colours and the two of
\* test_interpolate_color_start.
GradientEnds == PaletteColors \cup {Color(0, 0, 0), Color(100, 255, 0)}

\* Positions asked of a gradient: the queried values and the three non-finite
\* f64 values.
Alphas == Queries \cup {NaN, Frac(1, 0), Frac(-1, 0)}

InitGradient == InitColor

\* Gradient { start, end }.interpolate(a)
Interpolate ==
    \E start \in GradientEnds, end \in GradientEnds, a \in Alphas :
        /\ grad' = Some(Gradient(start, end))
        /\ ga' = Some(a)
        /\ gres' = Some(Gradient_interpolate(start, end, a))
        /\ UNCHANGED <<cm, qv, res, stylerVars, parseVars>>

NextGradient == Interpolate

SpecGradient == InitGradient /\ [][NextGradient]_vars

\* ------------------------------------------------------------------------
\* Color parsing (colors.rs); strings are sequences of ASCII characters
\* ------------------------------------------------------------------------

\* Value of a hexadecimal digit, either case.
HexDigitValue ==
    [ch \in {"0", "1", "2", "3", "4", "5", "6", "7", "8", "9",
             "a", "b", "c", "d", "e", "f", "A", "B", "C", "D", "E", "F"} |->
        CASE ch = "0" -> 0 [] ch = "1" -> 1 [] ch = "2" -> 2 [] ch = "3" -> 3
          [] ch = "4" -> 4 [] ch = "5" -> 5 [] ch = "6" -> 6 [] ch = "7" -> 7
          [] ch = "8" -> 8 [] ch = "9" -> 9
          [] ch \in {"a", "A"} -> 10 [] ch \in {"b", "B"} -> 11
          [] ch \in {"c", "C"} -> 12 [] ch \in {"d", "D"} -> 13
          [] ch \in {"e", "E"} -> 14 [] ch \in {"f", "F"} -> 15]

DecDigits == {"0", "1", "2", "3", "4", "5", "6", "7", "8", "9"}

\* Value of a non-empty digit string in the given radix; unbounded.
RECURSIVE digits_value(_, _)
digits_value(t, radix) ==
    IF Len(t) = 0 THEN 0
    ELSE digits_value(SubSeq(t, 1, Len(t) - 1), radix) * radix + HexDigitValue[t[Len(t)]]

\* u8::from_str_radix(t, 16): one leading "+" is accepted, "-" is not; the
\* rest must be one or more hex digits whose value fits a byte.
from_str_radix_16(t) ==
    LET digits == IF Len(t) > 0 /\ t[1] = "+" THEN Tail(t) ELSE t
    IN  IF Len(digits) = 0 THEN Err
        ELSE IF \E i \in DOMAIN digits : digits[i] \notin DOMAIN HexDigitValue THEN Err
        ELSE IF digits_value(digits, 16) > 255 THEN Err
        ELSE Ok(digits_value(digits, 16))

\* str::parse::<u8>() of a match of \d+
parse_u8(t) ==
    IF digits_value(t, 10) > 255 THEN Err ELSE Ok(digits_value(t, 10))

\* Color::from_hex: the length test, then the three slices; hex[0] is not read
from_hex(hex) ==
    IF Len(hex) # 7 THEN Err
    ELSE LET r == from_str_radix_16(SubSeq(hex, 2, 3))
             g == from_str_radix_16(SubSeq(hex, 4, 5))
             b == from_str_radix_16(SubSeq(hex, 6, 7))
         IN  IF is_ok(r) /\ is_ok(g) /\ is_ok(b) THEN Ok(Color(r[2], g[2], b[2])) ELSE Err

\* Index after the longest run of decimal digits of s that starts at i.
RECURSIVE digits_end(_, _)
digits_end(s, i) ==
    IF i <= Len(s) /\ s[i] \in DecDigits THEN digits_end(s, i + 1) ELSE i

\* s has the literal lit at index i.
has_at(s, i, lit) == i + Len(lit) - 1 <= Len(s) /\ SubSeq(s, i, i + Len(lit) - 1) = lit

\* A match of rgb\((\d+), (\d+), (\d+)\)$ that starts at index i: None, or
\* Some of the three captured digit strings.
match_at(s, i) ==
    LET a1 == i + 4
        e1 == digits_end(s, a1)
        a2 == e1 + 2
        e2 == digits_end(s, a2)
        a3 == e2 + 2
        e3 == digits_end(s, a3)
    IN  IF /\ has_at(s, i, <<"r", "g", "b", "(">>)
           /\ e1 > a1
           /\ has_at(s, e1, <<",", " ">>)
           /\ e2 > a2
           /\ has_at(s, e2, <<",", " ">>)
           /\ e3 > a3
           /\ has_at(s, e3, <<")">>)
           /\ e3 = Len(s)
        THEN Some(<<SubSeq(s, a1, e1 - 1), SubSeq(s, a2, e2 - 1), SubSeq(s, a3, e3 - 1)>>)
        ELSE None

\* Regex::captures: the leftmost match; the pattern is not anchored at the
\* start of the string
captures(s) ==
    LET starts == {i \in 1..Len(s) : match_at(s, i) # None}
    IN  IF starts = {} THEN None
        ELSE match_at(s, CHOOSE i \in starts : \A j \in starts : i <= j)

\* Color::from_rgb
from_rgb(rgb) ==
    LET caps == captures(rgb)
    IN  IF caps = None THEN Err
        ELSE LET r == parse_u8(unwrap(caps)[1])
                 g == parse_u8(unwrap(caps)[2])
                 b == parse_u8(unwrap(caps)[3])
             IN  IF is_ok(r) /\ is_ok(g) /\ is_ok(b) THEN Ok(Color(r[2], g[2], b[2])) ELSE Err

\* The named colours of try_from.
NamedColors ==
    (<<"r", "e", "d">> :> Color(255, 0, 0)) @@
    (<<"g", "r", "e", "e", "n">> :> Color(0, 255, 0)) @@
    (<<"b", "l", "u", "e">> :> Color(0, 0, 255)) @@
    (<<"y", "e", "l", "l", "o", "w">> :> Color(255, 255, 0)) @@
    (<<"c", "y", "a", "n">> :> Color(0, 255, 255)) @@
    (<<"m", "a", "g", "e", "n", "t", "a">> :> Color(255, 0, 255)) @@
    (<<"b", "l", "a", "c", "k">> :> Color(0, 0, 0)) @@
    (<<"w", "h", "i", "t", "e">> :> Color(255, 255, 255))

\* impl TryFrom<&str> for Color
try_from(s) ==
    IF is_ok(from_hex(s)) THEN from_hex(s)
    ELSE IF is_ok(from_rgb(s)) THEN from_rgb(s)
    ELSE IF s \in DOMAIN NamedColors THEN Ok(NamedColors[s])
    ELSE Err

\* Strings handed to try_from.  Hex-like strings: a lead and three channel
\* fields, of which some are not two hex digits.
HexFields == {<<"6", "e">>, <<"0", "0">>, <<"F", "f">>, <<"g", "0">>, <<"+", "f">>,
              <<"3">>, <<"3", "2", "0">>}

HexLeads == {<<"#">>, <<"x">>, <<>>}

HexInputs == {l \o f1 \o f2 \o f3 : l \in HexLeads, f1 \in HexFields, f2 \in HexFields,
                                    f3 \in HexFields}

\* rgb-like strings: text before and after the literal, two separators, and
\* fields that are empty, zero-padded or above 255.
RgbFields == {<<"0">>, <<"5", "0">>, <<"2", "5", "5">>, <<"2", "5", "6">>,
              <<"0", "0", "7">>, <<>>}

RgbLeads == {<<>>, <<"x">>, <<"r", "g", "b", "(", "1", ")">>}

RgbTails == {<<>>, <<" ">>}

RgbSeps == {<<",", " ">>, <<",">>}

RgbInputs == {l \o <<"r", "g", "b", "(">> \o f1 \o p \o f2 \o p \o f3 \o <<")">> \o t :
                 l \in RgbLeads, t \in RgbTails, p \in RgbSeps,
                 f1 \in RgbFields, f2 \in RgbFields, f3 \in RgbFields}

\* Names, recognised or not.
NameInputs == (DOMAIN NamedColors) \cup
              {<<"R", "e", "d">>, <<"g", "r", "e", "y">>, <<>>, <<"r", "e", "d", " ">>}

ParseInputs == HexInputs \cup RgbInputs \cup NameInputs

InitParse ==
    /\ df = NoColsTable
    /\ precision = None
    /\ table_classes = None
    /\ applied_styles = new_styles_grid(df)
    /\ labels = EmptyMap
    /\ status = "ok"
    /\ rend = None
    /\ out = None
    /\ last = <<"new">>
    /\ nops = 0
    /\ fcalls = 0
    /\ supplied = <<>>
    /\ assigned = EmptyMap
    /\ written = EmptyMap
    /\ cm = <<>>
    /\ qv = None
    /\ res = None
    /\ grad = None
    /\ ga = None
    /\ gres = None
    /\ input \in ParseInputs
    /\ parsed = None

Parse ==
    /\ parsed = None
    /\ parsed' = Some(try_from(input))
    /\ UNCHANGED <<input, stylerVars, colorVars>>

NextParse == Parse

SpecParse == InitParse /\ [][NextParse]_vars

\* ------------------------------------------------------------------------
\* Properties
\* ------------------------------------------------------------------------

\* A step that is a call of the operation named op.
IsCall(op) == nops' = nops + 1 /\ last'[1] = op

\* C1: set_precision on a state whose precision is set, and set_table_classes
\* on a state that has table classes (from set or from add), panic and leave
\* the stored value as it was; on an unset parameter they succeed and store
\* exactly the value given.
C1_SingleUse ==
    [][ /\ IsCall("set_precision") =>
              IF precision # None
              THEN status' = "Misconfiguration" /\ precision' = precision
              ELSE status' = "ok" /\ precision' = Some(last'[2])
        /\ IsCall("set_table_classes") =>
              IF table_classes # None
              THEN status' = "Misconfiguration" /\ table_classes' = table_classes
              ELSE status' = "ok" /\ table_classes' = Some(last'[2])
      ]_vars

\* C1 witness: set_table_classes panicked on a three-class list, which only
\* add_table_classes can have built.
C1_Witness ==
    /\ status = "Misconfiguration"
    /\ last[1] = "set_table_classes"
    /\ table_classes # None
    /\ Len(unwrap(table_classes)) = 3

\* C2: add_table_classes never panics; with no classes it stores the given
\* list, with classes it appends the given list; and the class list render
\* hands to the Renderer is the concatenation, in call order, of every list
\* the chain supplied.
C2_AddAppends ==
    [][ /\ IsCall("add_table_classes") =>
              /\ status' = "ok"
              /\ table_classes' = Some(IF table_classes = None THEN last'[2]
                                       ELSE unwrap(table_classes) \o last'[2])
        /\ (IsCall("render") /\ status' = "ok") => unwrap(rend').classes = supplied
      ]_vars

\* C2 witness: a render that was handed three classes, which takes at least
\* two supplied lists.
C2_Witness ==
    /\ last[1] = "render"
    /\ status = "ok"
    /\ Len(unwrap(rend).classes) = 3
    /\ unwrap(rend).classes = supplied

Attrs == {"color", "font-weight", "background-color"}

\* HashMap::get
hm_get(m, k) == IF k \in DOMAIN m THEN Some(m[k]) ELSE None

\* 1-based position of a column name the table has.
ColOf(d, column) == CHOOSE i \in 1..Len(d.names) : d.names[i] = column

\* C3: apply on an existing column sets, for every row r the closure returned
\* a mapping for, each attribute that mapping names to the new value and keeps
\* every other attribute of that cell; cells of other columns, the table, the
\* params and the labels are unchanged.  So every cell holds, per attribute,
\* the value most recently written to it.
C3_ApplyMerges ==
    [][ /\ (IsCall("apply") /\ status' = "ok") =>
              LET c == ColOf(df, last'[2])
                  new == StyleFn(last'[3], df.cols[c])
              IN  /\ \A cc \in 1..width(df), r \in 1..height(df), k \in Attrs :
                         hm_get(applied_styles'[cc][r], k) =
                             IF cc = c /\ r <= Len(new) /\ k \in DOMAIN new[r]
                             THEN Some(new[r][k])
                             ELSE hm_get(applied_styles[cc][r], k)
                  /\ UNCHANGED <<df, precision, table_classes, labels>>
        /\ \A cc \in 1..width(df), r \in 1..height(df), k \in Attrs :
               hm_get(applied_styles'[cc][r], k) = hm_get(written', <<cc - 1, r - 1, k>>)
      ]_vars

\* C3 witness: a cell whose colour a later apply overwrote while the
\* font-weight an earlier apply wrote stayed.
C3_Witness ==
    /\ status = "ok"
    /\ last = <<"apply", "a", "first_only">>
    /\ width(df) = 2
    /\ applied_styles[1][1] = ("color" :> <<"green">>) @@ ("font-weight" :> <<"bold">>)
    /\ applied_styles[1][2] = ("color" :> <<"blue">>) @@ ("font-weight" :> <<"bold">>)

\* C4: apply and background_gradient with a column name the table does not
\* have panic (NotFound) without invoking the closure and without writing a
\* style; with a name the table has they do not, and the closure is invoked
\* once.  Lookup finds a name exactly when it is one of the column names, and
\* then gives its position in the table's column order.
C4_UnknownColumn ==
    [][ /\ \A column \in ColumnArgs(df) :
               get_col_idx(df, column) =
                   IF column \in Range(df.names) THEN Some(ColOf(df, column) - 1) ELSE None
        /\ (IsCall("apply") \/ IsCall("background_gradient")) =>
               IF last'[2] \in Range(df.names)
               THEN status' # "NotFound" /\ fcalls' = fcalls + 1
               ELSE /\ status' = "NotFound"
                    /\ fcalls' = fcalls
                    /\ applied_styles' = applied_styles
      ]_vars

\* C4 witness: background_gradient panicked on an absent column after an
\* earlier call had written styles.
C4_Witness ==
    /\ status = "NotFound"
    /\ last[1] = "background_gradient"
    /\ last[2] \notin Range(df.names)
    /\ fcalls >= 1
    /\ DOMAIN written # {}

\* The id T_<hash>_row<r>_col<c>.
SyntheticId(hash, r, c) ==
    <<"T", "_">> \o hash \o <<"_", "r", "o", "w">> \o Dec(r) \o <<"_", "c", "o", "l">> \o Dec(c)

\* C7: in the output of a render, a rule with selector #T_<hash>_row<r>_col<c>
\* exists exactly when the style map of column c, row r is not empty, its body
\* is that cell's attribute/value pairs, the <td> with that id sits at row r,
\* column c of the body and shows the value of column c at row r, and the ids
\* of the <td>s are pairwise distinct.
C7_SelectorsMatchCells ==
    (last[1] = "render" /\ status = "ok") =>
        LET o == unwrap(out)
            h == unwrap(rend).hash
            cells == (0..height(df) - 1) \X (0..width(df) - 1)
            td(rc) == o.table.body[rc[1] + 1][rc[2] + 1]
            map(rc) == applied_styles[rc[2] + 1][rc[1] + 1]
            rules(rc) == {x \in o.style : x.sel = <<"#">> \o SyntheticId(h, rc[1], rc[2])}
        IN  /\ Len(o.table.body) = height(df)
            /\ \A i \in 1..height(df) : Len(o.table.body[i]) = width(df)
            /\ \A rc \in cells :
                   /\ (rules(rc) # {}) <=> (DOMAIN map(rc) # {})
                   /\ Cardinality(rules(rc)) <= 1
                   /\ \A x \in rules(rc) : x.body = {<<k, map(rc)[k]>> : k \in DOMAIN map(rc)}
                   /\ td(rc).id = SyntheticId(h, rc[1], rc[2])
                   /\ td(rc).inner = format_value(df.cols[rc[2] + 1][rc[1] + 1], precision)
            /\ \A x \in o.style : \E rc \in cells : x \in rules(rc)
            /\ \A rc1 \in cells, rc2 \in cells : td(rc1).id = td(rc2).id => rc1 = rc2

\* C7 witness: a render of a 3 x 2 table in which some cells have a rule, some
\* have none, and one rule carries two attributes.
C7_Witness ==
    /\ last[1] = "render"
    /\ status = "ok"
    /\ width(df) = 2
    /\ height(df) = 3
    /\ Cardinality(unwrap(out).style) \in 1..5
    /\ \E x \in unwrap(out).style : Cardinality(x.body) = 2

\* C8: background_gradient on a column whose values are all equal after the
\* clamping surfaces DegenerateInput.
C8_DegenerateSurfaces ==
    ( /\ last[1] = "background_gradient"
      /\ last[2] \in Range(df.names)
      /\ Cardinality(present(df.cols[ColOf(df, last[2])], last[3], last[4])) = 1 )
    => status = "DegenerateInput"

\* C9: render's header has one label per column in table order, the label
\* most recently assigned to the column's name or else the name itself;
\* set_labels pairs names with labels by position up to the shorter of the
\* two, so later columns keep their label and extra labels are dropped; a
\* label stored under a name that is not a column is not shown.
C9_HeaderLabels ==
    [][ /\ (IsCall("render") /\ status' = "ok") =>
              LET hd == unwrap(out').table.header
              IN  /\ Len(hd) = width(df)
                  /\ \A i \in 1..width(df) :
                         hd[i] = IF df.names[i] \in DOMAIN assigned
                                 THEN assigned[df.names[i]] ELSE df.names[i]
        /\ IsCall("set_labels") =>
              /\ \A i \in 1..width(df) :
                     hm_get(labels', df.names[i]) =
                         IF i <= Len(last'[2]) THEN Some(last'[2][i])
                         ELSE hm_get(labels, df.names[i])
              /\ \A x \in (DOMAIN labels') \ Range(df.names) :
                     x \in DOMAIN labels /\ labels'[x] = labels[x]
      ]_vars

\* C9 witness: a header whose first column shows a label from set_labels,
\* whose second column, beyond the list, shows its name, and which does not
\* show the label stored for a name that is not a column.
C9_Witness ==
    /\ last[1] = "render"
    /\ status = "ok"
    /\ width(df) = 2
    /\ "zz" \in DOMAIN labels
    /\ unwrap(out).table.header = <<"L1", df.names[2]>>
    /\ labels["zz"] \notin Range(unwrap(out).table.header)

\* Breakpoint values strictly ascending.
StrictlyAscending(v) == \A i \in 1..(Len(v) - 1) : FLt(v[i].value, v[i + 1].value)

\* C5: for a map of N >= 2 strictly ascending breakpoints and every i, get(v)
\* with value_i <= v < value_(i+1) is colour_i when v = value_i and otherwise
\* the gradient from colour_i to colour_(i+1) at
\* (v - value_i) / (value_(i+1) - value_i).
C5_EveryBracketInterpolates ==
    (qv # None /\ Len(cm) >= 2 /\ StrictlyAscending(cm)) =>
        \A i \in 1..(Len(cm) - 1) :
            LET v == unwrap(qv)
                lo == cm[i]
                hi == cm[i + 1]
            IN  (~FLt(v, lo.value) /\ FLt(v, hi.value)) =>
                    unwrap(res) =
                        IF FEq(v, lo.value) THEN Ok(lo.color)
                        ELSE Gradient_interpolate(lo.color, hi.color,
                                 FDiv(FSub(v, lo.value), FSub(hi.value, lo.value)))

\* C6: for a non-empty sorted map, get(v) is the first colour for every v
\* below the first breakpoint's value and the last colour for every v at or
\* above the last breakpoint's value; it is a colour, never an error.
C6_ClampsOutsideRange ==
    (qv # None /\ Len(cm) >= 1 /\ StrictlyAscending(cm)) =>
        LET v == unwrap(qv)
            first == cm[1]
            final == cm[Len(cm)]
        IN  /\ FLt(v, first.value) => unwrap(res) = Ok(first.color)
            /\ (FLt(final.value, v) \/ FEq(final.value, v)) => unwrap(res) = Ok(final.color)

\* C6 witness: a value above the range of a three-colour map was answered
\* with the last colour, which differs from the others.
C6_Witness ==
    /\ qv # None
    /\ Len(cm) = 3
    /\ FLt(cm[3].value, unwrap(qv))
    /\ res = Some(Ok(cm[3].color))
    /\ cm[3].color # cm[2].color
    /\ cm[3].color # cm[1].color

\* "#" and six hexadecimal digits.
IsHexLiteral(s) ==
    /\ Len(s) = 7
    /\ s[1] = "#"
    /\ \A i \in 2..7 : s[i] \in DOMAIN HexDigitValue

\* The byte written by two hexadecimal digits.
HexByte(s, i) == 16 * HexDigitValue[s[i]] + HexDigitValue[s[i + 1]]

\* Decimal digit strings of the integers 0..255, among the fields in use.
ByteFields == {f \in RgbFields : Len(f) > 0 /\ digits_value(f, 10) <= 255}

\* The literal rgb(<f1>, <f2>, <f3>).
RgbLiteral(f1, f2, f3) ==
    <<"r", "g", "b", "(">> \o f1 \o <<",", " ">> \o f2 \o <<",", " ">> \o f3 \o <<")">>

\* C10: try_from succeeds only on "#" and six hex digits, on exactly
\* rgb(<int>, <int>, <int>) with integers in 0..255, or on one of the eight
\* names, and then gives the triple written; every other string fails.
C10_ParseAcceptsOnlyLiterals ==
    parsed # None =>
        unwrap(parsed) =
            IF IsHexLiteral(input)
            THEN Ok(Color(HexByte(input, 2), HexByte(input, 4), HexByte(input, 6)))
            ELSE IF \E f1 \in ByteFields, f2 \in ByteFields, f3 \in ByteFields :
                        input = RgbLiteral(f1, f2, f3)
            THEN LET f == CHOOSE f \in ByteFields \X ByteFields \X ByteFields :
                              input = RgbLiteral(f[1], f[2], f[3])
                 IN  Ok(Color(digits_value(f[1], 10), digits_value(f[2], 10),
                              digits_value(f[3], 10)))
            ELSE IF input \in DOMAIN NamedColors THEN Ok(NamedColors[input])
            ELSE Err

\* The closed interval [0, 1] of f64 values.
InsideUnit(a) == IsFinite(a) /\ ~FLt(a, Frac(0, 1)) /\ ~FLt(Frac(1, 1), a)

\* C11: Gradient(start, end).interpolate(a) is an error for every a outside
\* [0, 1] and a colour for every a inside it; at a = 0.0 the colour is start
\* and at a = 1.0 it is end, on every channel.
C11_GradientBoundaryLaw ==
    gres # None =>
        LET g == unwrap(grad)
            a == unwrap(ga)
            r == unwrap(gres)
        IN  /\ ~InsideUnit(a) => r = Err
            /\ InsideUnit(a) =>
                   /\ is_ok(r)
                   /\ \A ch \in {"r", "g", "b"} : r[2][ch] \in 0..255
            /\ FEq(a, Frac(0, 1)) => r = Ok(g.start)
            /\ FEq(a, Frac(1, 1)) => r = Ok(g.end)

\* The gradient of test_interpolate_color_start asked for its upper boundary.
C11_Witness ==
    /\ gres # None
    /\ unwrap(grad) = Gradient(Color(0, 0, 0), Color(100, 255, 0))
    /\ FEq(unwrap(ga), Frac(1, 1))
    /\ unwrap(gres) = Ok(Color(100, 255, 0))

\* C12: the body of a rendered table has one row per record, in row order,
\* and each row one cell per column, in column order, so that in document
\* order the cell of (r1, c1) precedes the cell of (r2, c2) exactly when
\* r1 < r2, or r1 = r2 and c1 < c2, whatever was configured before.
C12_RowMajorOrder ==
    (last[1] = "render" /\ status = "ok") =>
        LET t == unwrap(out).table
            h == unwrap(rend).hash
            doc == body_cells(t.body, 1)
            cells == (0..height(df) - 1) \X (0..width(df) - 1)
            at(rc) == {k \in 1..Len(doc) :
                          /\ doc[k].id = SyntheticId(h, rc[1], rc[2])
                          /\ doc[k].inner = format_value(df.cols[rc[2] + 1][rc[1] + 1],
                                                         precision)}
            pos(rc) == CHOOSE k \in at(rc) : TRUE
        IN  /\ Len(t.body) = height(df)
            /\ \A i \in 1..Len(t.body) : Len(t.body[i]) = width(df)
            /\ Len(doc) = height(df) * width(df)
            /\ \A rc \in cells : Cardinality(at(rc)) = 1
            /\ \A p \in cells, q \in cells :
                   (pos(p) < pos(q)) <=> (p[1] < q[1] \/ (p[1] = q[1] /\ p[2] < q[2]))

\* C12 witness: a render of the 3 x 2 table of test_styler after a style and a
\* label were applied; "fooo" (row 0, column 1) comes before "222" (row 1,
\* column 0).
C12_Witness ==
    /\ last[1] = "render"
    /\ status = "ok"
    /\ df = TestTable
    /\ DOMAIN written # {}
    /\ DOMAIN labels # {}
    /\ LET doc == body_cells(unwrap(out).table.body, 1)
       IN  \E i \in 1..Len(doc), j \in 1..Len(doc) :
               /\ i < j
               /\ doc[i].inner = <<"fooo">>
               /\ doc[j].inner = <<"2", "2", "2">>

\* C13: render on a table without columns panics (StructuralError) and returns
\* no string, whatever was configured before; render returns a string exactly
\* when it does not panic, and on a table with at least one column, zero rows
\* included, it does not panic.
C13_ZeroColumnsFatal ==
    [][IsCall("render") =>
          /\ width(df) = 0 => (status' = "StructuralError" /\ out' = None)
          /\ width(df) >= 1 => (status' = "ok" /\ out' # None)
          /\ (out' = None) <=> (status' # "ok")]_vars

\* C13 witness: the table without columns, two accepted configuration calls,
\* then the render that panics.
C13_Witness ==
    /\ last[1] = "render"
    /\ width(df) = 0
    /\ nops = 3
    /\ table_classes # None
    /\ DOMAIN labels # {}
    /\ status = "StructuralError"
    /\ out = None

\* One entry per table column, each with one map per table row.
GridShape(st, d) ==
    /\ Len(st) = width(d)
    /\ \A c \in 1..Len(st) : Len(st[c]) = height(d)

\* C14: at construction every cell's style map is empty, and through any
\* operations applied_styles keeps one entry per table column with one map per
\* table row.  An apply whose closure returns fewer or more mappings than the
\* column has rows keeps that shape: mappings past the last row are ignored
\* and rows past the end of the returned list keep their styles.
C14_StyleGridShape ==
    /\ []( /\ GridShape(applied_styles, df)
           /\ nops = 0 =>
                  \A c \in 1..width(df), r \in 1..height(df) : applied_styles[c][r] = EmptyMap )
    /\ [][ (IsCall("apply") /\ status' = "ok") =>
               LET c == ColOf(df, last'[2])
                   new == StyleFn(last'[3], df.cols[c])
               IN  /\ GridShape(applied_styles', df')
                   /\ \A r \in 1..height(df) :
                          applied_styles'[c][r] =
                              IF r <= Len(new) THEN extend(applied_styles[c][r], new[r])
                              ELSE applied_styles[c][r] ]_vars

\* C14 witness: on a 3-row table, a closure that returned four mappings and
\* then one that returned a single mapping; rows 1 and 2 keep the styles of
\* the first call, row 0 has both.
C14_Witness ==
    /\ status = "ok"
    /\ nops = 2
    /\ height(df) = 3
    /\ last[1] = "apply"
    /\ last[3] = "first_only"
    /\ LET column == applied_styles[ColOf(df, last[2])]
       IN  /\ Len(column) = 3
           /\ column[1] = ("color" :> <<"green">>) @@ ("background-color" :> <<"yellow">>)
           /\ column[2] = ("background-color" :> <<"yellow">>)
           /\ column[3] = ("background-color" :> <<"yellow">>)

====
